---- MODULE Spec2Model ----
(***************************************************************************)
(* Model of backend/server.py: the authentication endpoints (register,     *)
(* login, get_current_user) and the per-user list endpoints (add_to_list,  *)
(* remove_from_list, get_user_list) running as concurrent request          *)
(* coroutines over the MongoDB collections users, user_lists and movies.   *)
(* Every "await db...." of the source is one atomic step of a request;     *)
(* between two awaits of one request any step of another request, or the   *)
(* passage of time, may happen.                                            *)
(***************************************************************************)
EXTENDS Integers, Sequences, FiniteSets, TLC

VARIABLES
    users,       \* db.users, in insertion (natural) order
    user_lists,  \* db.user_lists, in insertion (natural) order
    movies,      \* db.movies: the ids of the stored Movie documents, in order
    now,         \* datetime.now(timezone.utc), in hours
    issued,      \* the tokens returned to clients so far, with their issue time
    reqs,        \* the request coroutines: locals, program counter, response
    last,        \* history: the slot of the list request that completed last
    after        \* history: per request, the request it immediately follows

vars == <<users, user_lists, movies, now, issued, reqs, last, after>>

----------------------------------------------------------------------------
(* Program constants *)

JWT_SECRET == "netflix-secret-key-123"
JWT_ALGORITHM == "HS256"
JWT_EXPIRATION == 24

(* Bounds of the model *)

MaxTime == 26      \* the clock stops here
MaxUsers == 2      \* register requests admitted (stored or about to be stored)
MaxTokens == 3     \* tokens issued
MaxLists == 2      \* add requests admitted (records stored or about to be)

Reqs == {"r1", "r2"}
Emails == {"alice@example.com", "bob@example.com"}
Passwords == {"pw123", "wrongpw"}
Names == {"Alice", "Bob"}
Salts == {"s1"}
ListTypes == {"favorites", "later"}
MovieIds == {1, 2}

----------------------------------------------------------------------------
(* Helpers over the collections *)

Range(s) == {s[i] : i \in 1 .. Len(s)}

\* find_one and delete_one take the first matching document in natural order:
\* the least of the matching indices, or 0 (None) when nothing matches.
First(indices) ==
    IF indices = {} THEN 0 ELSE CHOOSE i \in indices : \A j \in indices : i <= j

RemoveAt(s, i) == [j \in 1 .. (Len(s) - 1) |-> IF j < i THEN s[j] ELSE s[j + 1]]

\* uuid.uuid4(): an identifier that no stored document of the collection carries.
FreshId(s) == CHOOSE n \in 1 .. (Len(s) + 1) : \A i \in 1 .. Len(s) : s[i].id # n

\* The number of elements of s equal to x.
Count(s, x) == Cardinality({i \in 1 .. Len(s) : s[i] = x})

----------------------------------------------------------------------------
(* Credential helpers: passlib's bcrypt context *)

hash_password(password, salt) ==
    [scheme |-> "bcrypt", salt |-> salt, digest |-> <<salt, password>>]

verify_password(plain_password, hashed_password) ==
    hashed_password.digest = <<hashed_password.salt, plain_password>>

----------------------------------------------------------------------------
(* Tokens: a JWT is its payload and the key its signature verifies under.  *)
(* user_id 0 stands for a payload without a user_id claim.                 *)

NoToken == [user_id |-> 0, exp |-> 0, key |-> ""]

create_jwt_token(user_id, t) ==
    [user_id |-> user_id, exp |-> t + JWT_EXPIRATION, key |-> JWT_SECRET]

\* jwt.decode that still accepts the token in the hour it expires.
jwt_decode_late(token, t) ==
    IF token.key # JWT_SECRET THEN "InvalidTokenError"
    ELSE IF token.exp < t THEN "ExpiredSignatureError"
    ELSE "ok"

\* jwt.decode with verify_signature off.
jwt_decode_unverified(token, t) ==
    IF token.exp <= t THEN "ExpiredSignatureError" ELSE "ok"

\* jwt.decode(token, JWT_SECRET, algorithms=[JWT_ALGORITHM]) at time t: the
\* signature is verified first, then the exp claim (expired once exp <= now).
jwt_decode(token, t) ==
    IF token.key # JWT_SECRET THEN "InvalidTokenError"
    ELSE IF token.exp <= t THEN "ExpiredSignatureError"
    ELSE "ok"

\* Tokens a client can present without having been given them by the server:
\* signed with another key, signed but without a user_id claim, signed for an
\* id that no register has produced.
ForgedTokens ==
    { [user_id |-> 1, exp |-> MaxTime + JWT_EXPIRATION, key |-> "other-key"],
      [user_id |-> 0, exp |-> MaxTime + JWT_EXPIRATION, key |-> JWT_SECRET],
      [user_id |-> MaxUsers + 1, exp |-> MaxTime + JWT_EXPIRATION, key |-> JWT_SECRET] }

IssuedTokens == {i.tok : i \in issued}

----------------------------------------------------------------------------
(* Requests *)

Idle ==
    [kind |-> "none", pc |-> "idle",
     email |-> "", password |-> "", name |-> "",
     token |-> NoToken, movie_id |-> 0, list_type |-> "",
     current_user |-> 0, movie_ids |-> <<>>,
     status |-> 0, detail |-> "", resp_user |-> 0, resp_token |-> NoToken,
     result |-> <<>>,
     \* history fields
     decodedAt |-> 0 - 1, touched |-> FALSE, wrote |-> FALSE,
     why |-> "", seen |-> {}]

\* History only: what a completed request was, for "immediately followed by".
NoDone == [kind |-> "none", user_id |-> 0, movie_id |-> 0, list_type |-> "", status |-> 0]

DoneOf(q) ==
    [kind |-> q.kind, user_id |-> q.current_user, movie_id |-> q.movie_id,
     list_type |-> q.list_type, status |-> q.status]

InFlight(r) == reqs[r].pc \notin {"idle", "done"}

\* raise HTTPException(status_code, detail)
Raise(q, status_code, detail) ==
    [q EXCEPT !.pc = "done", !.status = status_code, !.detail = detail]

ListKinds == {"add", "remove", "list"}

\* The slot of the list request that completed last, once request r has become q.
LastAfter(r, q) == IF q.pc = "done" /\ q.kind \in ListKinds THEN r ELSE last

\* A step of request r: r's record becomes q. A request that a step of another
\* request interleaves with no longer immediately follows the one before it.
Step(r, q) ==
    /\ reqs' = [reqs EXCEPT ![r] = q]
    /\ last' = LastAfter(r, q)
    /\ after' = [x \in Reqs |-> IF x = r THEN after[r] ELSE NoDone]

\* The arrival of request r. It immediately follows the list request that
\* completed last when no request is in flight.
Arrive(r, q) ==
    /\ reqs' = [reqs EXCEPT ![r] = q]
    /\ last' = LastAfter(r, q)
    /\ after' = [x \in Reqs |->
                    IF /\ x = r
                       /\ q.kind \in ListKinds
                       /\ last \in Reqs \ {r}
                       /\ \A y \in Reqs \ {r} : ~InFlight(y)
                    THEN DoneOf(reqs[last])
                    ELSE NoDone]

Init ==
    /\ users = <<>>
    /\ user_lists = <<>>
    /\ movies = <<>>
    /\ now = 0
    /\ issued = {}
    /\ reqs = [r \in Reqs |-> Idle]
    /\ last = "none"
    /\ after = [r \in Reqs |-> NoDone]

----------------------------------------------------------------------------
(* Auth endpoints *)

Registering == {r \in Reqs : reqs[r].kind = "register" /\ InFlight(r)}
Adding == {r \in Reqs : reqs[r].kind = "add" /\ InFlight(r)}

\* POST /auth/register, up to the return of find_one({'email': ...}).
Register(r, email, password, name) ==
    /\ reqs[r].pc = "idle"
    /\ Len(users) + Cardinality(Registering) < MaxUsers
    /\ Cardinality(issued) + Cardinality(Registering) < MaxTokens
    /\ LET q == [Idle EXCEPT !.kind = "register", !.email = email,
                             !.password = password, !.name = name]
           existing_user == First({k \in 1 .. Len(users) : users[k].email = email})
       IN  Arrive(r, IF existing_user # 0
                     THEN Raise(q, 400, "Email already registered")
                     ELSE [q EXCEPT !.pc = "reg_insert"])
    /\ UNCHANGED <<users, user_lists, movies, now, issued>>

\* register, from insert_one(user_dict) to the response.
RegisterInsert(r) ==
    /\ reqs[r].pc = "reg_insert"
    /\ \E salt \in Salts :
        LET q == reqs[r]
            id == FreshId(users)
            user_dict == [id |-> id, email |-> q.email, name |-> q.name,
                          password_hash |-> hash_password(q.password, salt)]
            token == create_jwt_token(id, now)
        IN  /\ users' = Append(users, user_dict)
            /\ issued' = issued \cup {[tok |-> token, iat |-> now]}
            /\ Step(r, [q EXCEPT !.pc = "done", !.status = 200,
                                 !.detail = "Registration successful",
                                 !.resp_user = id, !.resp_token = token])
    /\ UNCHANGED <<user_lists, movies, now>>

\* The register responses returned so far: (email, password, user id, token).
Registered ==
    {[email |-> reqs[x].email, password |-> reqs[x].password,
      id |-> reqs[x].resp_user, token |-> reqs[x].resp_token] :
        x \in {y \in Reqs : /\ reqs[y].kind = "register"
                            /\ reqs[y].pc = "done"
                            /\ reqs[y].status = 200}}

\* A login failure that tells the caller which check failed.
LoginFailureLeaky(q, why) ==
    [Raise(q, 401, IF why = "no_user" THEN "User not found" ELSE "Invalid credentials")
        EXCEPT !.why = why]

\* login: raise HTTPException(status_code=401, detail="Invalid credentials"),
\* after the check named by why.
LoginFailure(q, why) ==
    [Raise(q, 401, "Invalid credentials") EXCEPT !.why = why]

\* POST /auth/login.
Login(r, email, password) ==
    /\ reqs[r].pc = "idle"
    /\ Cardinality(issued) + Cardinality(Registering) < MaxTokens
    /\ LET q == [Idle EXCEPT !.kind = "login", !.email = email,
                             !.password = password, !.seen = Registered]
           i == First({k \in 1 .. Len(users) : users[k].email = email})
       IN  IF i = 0
           THEN /\ Arrive(r, LoginFailure(q, "no_user"))
                /\ UNCHANGED issued
           ELSE IF ~verify_password(password, users[i].password_hash)
           THEN /\ Arrive(r, LoginFailure(q, "bad_password"))
                /\ UNCHANGED issued
           ELSE LET token == create_jwt_token(users[i].id, now)
                IN  /\ Arrive(r, [q EXCEPT !.pc = "done", !.status = 200,
                                           !.detail = "Login successful",
                                           !.resp_user = users[i].id,
                                           !.resp_token = token])
                    /\ issued' = issued \cup {[tok |-> token, iat |-> now]}
    /\ UNCHANGED <<users, user_lists, movies, now>>

----------------------------------------------------------------------------
(* get_current_user, the dependency of every authenticated endpoint *)

\* The arrival of an authenticated request: jwt.decode and the user_id claim.
Auth(r, kind, token, movie_id, list_type) ==
    /\ reqs[r].pc = "idle"
    /\ kind = "add" => Len(user_lists) + Cardinality(Adding) < MaxLists
    /\ LET q == [Idle EXCEPT !.kind = kind, !.token = token, !.movie_id = movie_id,
                             !.list_type = list_type, !.decodedAt = now]
           decoded == jwt_decode(token, now)
       IN  Arrive(r, IF decoded = "ExpiredSignatureError"
                     THEN Raise(q, 401, "Token expired")
                     ELSE IF decoded = "InvalidTokenError"
                     THEN Raise(q, 401, "Invalid token")
                     ELSE IF token.user_id = 0
                     THEN Raise(q, 401, "Invalid token")
                     ELSE [q EXCEPT !.pc = "lookup"])
    /\ UNCHANGED <<users, user_lists, movies, now, issued>>

\* The first step of the endpoint once get_current_user has returned.
Entry(kind) ==
    CASE kind = "add" -> "add_find"
      [] kind = "remove" -> "remove"
      [] kind = "list" -> "list_find"
      [] OTHER -> "done"

\* get_current_user: db.users.find_one({'id': user_id}); GET /auth/me returns
\* the user at once.
Lookup(r) ==
    /\ reqs[r].pc = "lookup"
    /\ LET q == reqs[r]
           i == First({k \in 1 .. Len(users) : users[k].id = q.token.user_id})
       IN  Step(r, IF i = 0
                   THEN Raise(q, 401, "User not found")
                   ELSE IF q.kind = "me"
                   THEN [q EXCEPT !.pc = "done", !.status = 200,
                                  !.current_user = users[i].id,
                                  !.resp_user = users[i].id]
                   ELSE [q EXCEPT !.pc = Entry(q.kind),
                                  !.current_user = users[i].id])
    /\ UNCHANGED <<users, user_lists, movies, now, issued>>

----------------------------------------------------------------------------
(* User Lists endpoints *)

\* A filter that leaves out the user_id.
MatchesAnyUser(rec, user_id, movie_id, list_type) ==
    /\ rec.movie_id = movie_id
    /\ rec.list_type = list_type

\* The filter {'user_id': ..., 'movie_id': ..., 'list_type': ...} of add_to_list
\* and remove_from_list.
Matches(rec, user_id, movie_id, list_type) ==
    /\ rec.user_id = user_id
    /\ rec.movie_id = movie_id
    /\ rec.list_type = list_type

\* add_to_list: db.user_lists.find_one(...) and the "Already in list" check.
AddFind(r) ==
    /\ reqs[r].pc = "add_find"
    /\ LET q == [reqs[r] EXCEPT !.touched = TRUE]
           existing == First({k \in 1 .. Len(user_lists) :
                              Matches(user_lists[k], q.current_user, q.movie_id,
                                      q.list_type)})
       IN  Step(r, IF existing # 0
                   THEN Raise(q, 400, "Already in list")
                   ELSE [q EXCEPT !.pc = "add_insert"])
    /\ UNCHANGED <<users, user_lists, movies, now, issued>>

\* add_to_list: db.user_lists.insert_one(user_list.dict()) and the response; the
\* message f'Added to {list_type}' is kept as one string, the list_type being in
\* the request record.
AddInsert(r) ==
    /\ reqs[r].pc = "add_insert"
    /\ LET q == reqs[r]
           user_list == [id |-> FreshId(user_lists), user_id |-> q.current_user,
                         movie_id |-> q.movie_id, list_type |-> q.list_type]
       IN  /\ user_lists' = Append(user_lists, user_list)
           /\ Step(r, [q EXCEPT !.pc = "done", !.status = 200, !.detail = "Added to list_type",
                                !.wrote = TRUE])
    /\ UNCHANGED <<users, movies, now, issued>>

\* remove_from_list: db.user_lists.delete_one(...) and the deleted_count check.
RemoveFromList(r) ==
    /\ reqs[r].pc = "remove"
    /\ LET q == [reqs[r] EXCEPT !.touched = TRUE]
           i == First({k \in 1 .. Len(user_lists) :
                       Matches(user_lists[k], q.current_user, q.movie_id,
                               q.list_type)})
       IN  IF i = 0
           THEN /\ Step(r, Raise(q, 404, "Item not found in list"))
                /\ UNCHANGED user_lists
           ELSE /\ user_lists' = RemoveAt(user_lists, i)
                /\ Step(r, [q EXCEPT !.pc = "done", !.status = 200,
                                     !.detail = "Removed from list_type", !.wrote = TRUE])
    /\ UNCHANGED <<users, movies, now, issued>>

\* The movie_ids get_user_list collects from the user's records of one list.
MovieIdsOf(ul, user_id, list_type) ==
    LET hits == SelectSeq(ul, LAMBDA x : x.user_id = user_id /\ x.list_type = list_type)
    IN  [i \in 1 .. Len(hits) |-> hits[i].movie_id]

\* db.movies.find({'id': {'$in': movie_ids}}): each stored movie whose id is
\* among movie_ids, in the order of the movies collection.
MoviesIn(mv, movie_ids) == SelectSeq(mv, LAMBDA m : m \in Range(movie_ids))

\* get_user_list: db.user_lists.find(...).to_list and the movie_ids list.
ListFind(r) ==
    /\ reqs[r].pc = "list_find"
    /\ LET q == reqs[r]
       IN  Step(r, [q EXCEPT !.pc = "list_movies", !.touched = TRUE,
                             !.movie_ids = MovieIdsOf(user_lists, q.current_user,
                                                      q.list_type)])
    /\ UNCHANGED <<users, user_lists, movies, now, issued>>

\* get_user_list: db.movies.find(...).to_list and the response.
ListMovies(r) ==
    /\ reqs[r].pc = "list_movies"
    /\ LET q == reqs[r]
       IN  Step(r, [q EXCEPT !.pc = "done", !.status = 200,
                             !.result = MoviesIn(movies, q.movie_ids)])
    /\ UNCHANGED <<users, user_lists, movies, now, issued>>

----------------------------------------------------------------------------
(* The rest of the environment *)

\* Time passes, up to a later one of the instants the clock is read at.
Tick(instants) ==
    /\ \E t \in instants : t > now /\ now' = t
    /\ UNCHANGED <<users, user_lists, movies, issued, reqs, last, after>>

\* The response of request r has been delivered; the slot serves a new request.
Recycle(r) ==
    /\ reqs[r].pc = "done"
    /\ reqs' = [reqs EXCEPT ![r] = Idle]
    /\ last' = IF last = r THEN "none" ELSE last
    /\ after' = [after EXCEPT ![r] = NoDone]
    /\ UNCHANGED <<users, user_lists, movies, now, issued>>

----------------------------------------------------------------------------
(* Specifications *)

Presentable == IssuedTokens \cup ForgedTokens

\* The instants requests arrive at: a token lifetime apart, or around the end
\* of a token lifetime (the hour before it, the hour itself, the hour after).
Lifetimes == {h \in 0 .. MaxTime : h % JWT_EXPIRATION = 0}
Boundaries ==
    {h \in 0 .. MaxTime : h % JWT_EXPIRATION \in {0, 1, JWT_EXPIRATION - 1}}

\* The authentication endpoints, with a clock that moves a token lifetime at a time.
Next ==
    \/ \E r \in Reqs, e \in Emails, p \in Passwords, n \in Names : Register(r, e, p, n)
    \/ \E r \in Reqs : RegisterInsert(r)
    \/ \E r \in Reqs, e \in Emails, p \in Passwords : Login(r, e, p)
    \/ \E r \in Reqs, t \in Presentable : Auth(r, "me", t, 0, "")
    \/ \E r \in Reqs : Lookup(r)
    \/ \E r \in Reqs : Recycle(r)
    \/ Tick(Lifetimes)

Spec == Init /\ [][Next]_vars

\* The life of a token, hour by hour, for the accounts of one email address.
NextToken ==
    \/ \E r \in Reqs : Register(r, "alice@example.com", "pw123", "Alice")
    \/ \E r \in Reqs : RegisterInsert(r)
    \/ \E r \in Reqs : Login(r, "alice@example.com", "pw123")
    \/ \E r \in Reqs, t \in Presentable : Auth(r, "me", t, 0, "")
    \/ \E r \in Reqs : Lookup(r)
    \/ \E r \in Reqs : Recycle(r)
    \/ Tick(Boundaries)

SpecToken == Init /\ [][NextToken]_vars

\* The list endpoints, once Alice and Bob have registered (at hour 0) and one
\* movie has been created: movie 1 is in the catalog, movie 2 is not.
Account(id, email, name) ==
    [id |-> id, email |-> email, name |-> name,
     password_hash |-> hash_password("pw123", "s1")]

InitList ==
    /\ users = <<Account(1, "alice@example.com", "Alice"),
                 Account(2, "bob@example.com", "Bob")>>
    /\ issued = {[tok |-> create_jwt_token(id, 0), iat |-> 0] : id \in {1, 2}}
    /\ user_lists = <<>>
    /\ movies = <<1>>
    /\ now = 0
    /\ reqs = [r \in Reqs |-> Idle]
    /\ last = "none"
    /\ after = [r \in Reqs |-> NoDone]

\* add_to_list and remove_from_list, with the tokens the server has issued:
\* Alice's requests name any movie and list, Bob's movie 1 and his favorites.
ListInputs ==
    {x \in IssuedTokens \X MovieIds \X ListTypes :
        x[1].user_id = 1 \/ (x[2] = 1 /\ x[3] = "favorites")}

NextList ==
    \/ \E r \in Reqs, x \in ListInputs : Auth(r, "add", x[1], x[2], x[3])
    \/ \E r \in Reqs, x \in ListInputs : Auth(r, "remove", x[1], x[2], x[3])
    \/ \E r \in Reqs : Lookup(r)
    \/ \E r \in Reqs : AddFind(r)
    \/ \E r \in Reqs : AddInsert(r)
    \/ \E r \in Reqs : RemoveFromList(r)
    \/ \E r \in Reqs : Recycle(r)
    \/ Tick(Lifetimes)

SpecList == InitList /\ [][NextList]_vars

\* The three list endpoints on the favorites list, with any token a client can
\* present: Alice's requests name either movie, the others movie 1.
GuardInputs ==
    {x \in Presentable \X MovieIds :
        (x[1] \in IssuedTokens /\ x[1].user_id = 1) \/ x[2] = 1}

NextGuard ==
    \/ \E r \in Reqs, x \in GuardInputs : Auth(r, "add", x[1], x[2], "favorites")
    \/ \E r \in Reqs, x \in GuardInputs : Auth(r, "remove", x[1], x[2], "favorites")
    \/ \E r \in Reqs, t \in Presentable : Auth(r, "list", t, 0, "favorites")
    \/ \E r \in Reqs : Lookup(r)
    \/ \E r \in Reqs : AddFind(r)
    \/ \E r \in Reqs : AddInsert(r)
    \/ \E r \in Reqs : RemoveFromList(r)
    \/ \E r \in Reqs : ListFind(r)
    \/ \E r \in Reqs : ListMovies(r)
    \/ \E r \in Reqs : Recycle(r)
    \/ Tick(Lifetimes)

SpecGuard == InitList /\ [][NextGuard]_vars

----------------------------------------------------------------------------
(* Properties *)

Done(r) == reqs[r].pc = "done"

UserIds == {users[i].id : i \in 1 .. Len(users)}

\* C1: the membership store holds at most one record for any
\* (user_id, movie_id, list_type) triple, under any interleaving of add and
\* remove requests.
C1_UniqueMembership ==
    \A i, j \in 1 .. Len(user_lists) :
        Matches(user_lists[i], user_lists[j].user_id, user_lists[j].movie_id,
                user_lists[j].list_type) => i = j

\* C2: no two stored users have the same email, under any interleaving of
\* register requests.
C2_UniqueEmail ==
    \A i, j \in 1 .. Len(users) : users[i].email = users[j].email => i = j

\* C9: every stored membership record has a list_type of the fixed set
\* {"favorites", "watched"}.
C9_ListTypeInFixedSet ==
    \A i \in 1 .. Len(user_lists) : user_lists[i].list_type \in {"favorites", "watched"}

\* A completed request r that immediately follows a successful request of the
\* same kind for the same (user, movie, list).
Repeats(r, kind) ==
    /\ Done(r)
    /\ reqs[r].kind = kind
    /\ after[r].kind = kind
    /\ after[r].status = 200
    /\ after[r].user_id = reqs[r].current_user
    /\ after[r].movie_id = reqs[r].movie_id
    /\ after[r].list_type = reqs[r].list_type

\* The add half of C6: an add immediately after a successful add of the same
\* triple fails with 400 "Already in list" and creates no record.
AddAgainFails ==
    \A r \in Reqs :
        Repeats(r, "add") =>
            reqs[r].status = 400 /\ reqs[r].detail = "Already in list" /\ ~reqs[r].wrote

\* The remove half of C6: a remove immediately after a successful remove of the
\* same triple fails with 404.
RemoveAgainFails ==
    \A r \in Reqs :
        Repeats(r, "remove") =>
            reqs[r].status = 404 /\ reqs[r].detail = "Item not found in list"

\* C6: a successful add(u,m,t) immediately followed by add(u,m,t) fails with
\* 400 and creates no record, and a successful remove(u,m,t) immediately
\* followed by remove(u,m,t) fails with 404.
C6_RepeatFails == AddAgainFails /\ RemoveAgainFails

\* The token is validly signed for the stored user id.
ResolvesTo(token, id) ==
    /\ token.key = JWT_SECRET
    /\ token.user_id = id
    /\ id \in UserIds

\* C5: a login with the email and password of a register that has succeeded
\* succeeds and returns the id that register returned, and the tokens of both
\* responses resolve to that id.
C5_LoginAfterRegister ==
    \A r \in Reqs :
        (Done(r) /\ reqs[r].kind = "login") =>
            \A g \in reqs[r].seen :
                (g.email = reqs[r].email /\ g.password = reqs[r].password) =>
                    /\ reqs[r].status = 200
                    /\ reqs[r].resp_user = g.id
                    /\ ResolvesTo(reqs[r].resp_token, g.id)
                    /\ ResolvesTo(g.token, g.id)

\* C5 where the emails of the stored users are unique.
LoginAfterRegisterIfUnique == C2_UniqueEmail => C5_LoginAfterRegister

\* C7: the result of list(u, "favorites") contains exactly once every movie m
\* that u has added to favorites and not removed.
C7_ListedOnce ==
    \A r \in Reqs :
        (Done(r) /\ reqs[r].kind = "list" /\ reqs[r].status = 200
                 /\ reqs[r].list_type = "favorites") =>
            \A m \in Range(reqs[r].movie_ids) : Count(reqs[r].result, m) = 1

\* C7 for the movies of the catalog.
ListedOnceIfStored ==
    \A r \in Reqs :
        (Done(r) /\ reqs[r].kind = "list" /\ reqs[r].status = 200
                 /\ reqs[r].list_type = "favorites") =>
            \A m \in Range(reqs[r].movie_ids) \cap Range(movies) :
                Count(reqs[r].result, m) = 1

Accepted(q) ==
    /\ q.token.key = JWT_SECRET
    /\ q.decodedAt < q.token.exp
    /\ q.token.user_id \in UserIds

GuardedRequests ==
    \A r \in Reqs :
        reqs[r].kind \in ListKinds =>
            /\ (reqs[r].touched \/ reqs[r].wrote) =>
                  Accepted(reqs[r]) /\ reqs[r].current_user = reqs[r].token.user_id
            /\ (Done(r) /\ ~Accepted(reqs[r])) =>
                  reqs[r].status = 401 /\ ~reqs[r].touched /\ ~reqs[r].wrote

GuardedStore ==
    user_lists' # user_lists =>
        \E r \in Reqs : /\ reqs'[r] # reqs[r]
                        /\ reqs[r].kind \in ListKinds
                        /\ Accepted(reqs[r])
                        /\ reqs[r].current_user = reqs[r].token.user_id

FailedLogin(r) == Done(r) /\ reqs[r].kind = "login" /\ reqs[r].status # 200

Response(q) ==
    [status |-> q.status, detail |-> q.detail, user |-> q.resp_user, token |-> q.resp_token]

LoginFailuresAlike ==
    /\ \A r \in Reqs :
          FailedLogin(r) =>
              /\ reqs[r].why \in {"no_user", "bad_password"}
              /\ Response(reqs[r]) = [status |-> 401, detail |-> "Invalid credentials",
                                      user |-> 0, token |-> NoToken]
    /\ \A r1, r2 \in Reqs :
          (FailedLogin(r1) /\ FailedLogin(r2)) => Response(reqs[r1]) = Response(reqs[r2])

LoginFailureChangesNothing ==
    \A r \in Reqs :
        (reqs[r].pc = "idle" /\ reqs'[r].kind = "login" /\ reqs'[r].status # 200) =>
            users' = users /\ issued' = issued

\* C8: a login failing for an unknown email and a login failing for a wrong
\* password produce the identical outcome (401, "Invalid credentials", no
\* token), and neither changes the user store.
C8_LoginFailuresAlike == []LoginFailuresAlike /\ [][LoginFailureChangesNothing]_vars

\* Both failures side by side.
C8_Witness ==
    \E r1, r2 \in Reqs :
        /\ FailedLogin(r1) /\ reqs[r1].why = "no_user"
        /\ FailedLogin(r2) /\ reqs[r2].why = "bad_password"

\* What get_user_list returns for (user_id, list_type) from the collections.
ListResult(ul, mv, user_id, list_type) ==
    MoviesIn(mv, MovieIdsOf(ul, user_id, list_type))

Changed == (Range(user_lists') \ Range(user_lists)) \cup (Range(user_lists) \ Range(user_lists'))

FrameOfStep ==
    user_lists' # user_lists =>
        \E r \in Reqs :
            /\ reqs'[r] # reqs[r]
            /\ reqs[r].kind \in {"add", "remove"}
            /\ \A rec \in Changed :
                  /\ rec.user_id = reqs[r].current_user
                  /\ rec.user_id = reqs[r].token.user_id
                  /\ rec.movie_id = reqs[r].movie_id
                  /\ rec.list_type = reqs[r].list_type
            /\ \A rec \in Range(user_lists) \cap Range(user_lists') :
                  Count(user_lists', rec) = Count(user_lists, rec)
            /\ \A u \in UserIds, t \in ListTypes :
                  <<u, t>> # <<reqs[r].current_user, reqs[r].list_type>> =>
                      ListResult(user_lists', movies', u, t)
                          = ListResult(user_lists, movies, u, t)

\* C10: an add or remove authenticated as u for (m, t) creates or deletes only
\* records of (u, m, t); every other record is unchanged, and list(u', t')
\* returns the same result for every (u', t') other than (u, t).
C10_Frame == [][FrameOfStep]_vars

\* A remove has succeeded while another user's record of a catalog movie stays.
C10_Witness ==
    \E r \in Reqs :
        /\ Done(r) /\ reqs[r].kind = "remove" /\ reqs[r].status = 200
        /\ \E i \in 1 .. Len(user_lists) :
              /\ user_lists[i].user_id # reqs[r].current_user
              /\ user_lists[i].movie_id = reqs[r].movie_id
              /\ user_lists[i].list_type = reqs[r].list_type
              /\ ListResult(user_lists, movies, user_lists[i].user_id,
                            user_lists[i].list_type) # <<>>

====
